---- MODULE Spec2Model ----
(***************************************************************************)
(* Apartment purchase budget calculator (streamlit_budget_calculator_app). *)
(*                                                                         *)
(* The script is a Streamlit page: every rerun executes the sidebar and    *)
(* the four tab blocks top to bottom, reading the widgets' current values  *)
(* and recomputing every derived figure.                                   *)
(*                                                                         *)
(* Numbers.  The script computes with Python floats.  The model computes   *)
(* with exact fixed-point integers instead:                                *)
(*   - a monetary amount is an integer count of 1/SCALE shekel;            *)
(*   - a rate (tax rate, VAT, fee percentage, LTV) is an integer count of  *)
(*     1/RATE, so 0.035 is 350 and 0.75 is 7500;                           *)
(*   - float("inf") is INF, larger than every amount of the model.         *)
(* The inputs are drawn from sets on which every product the script forms  *)
(* is an exact multiple of 1/SCALE shekel, so no rounding takes place.     *)
(***************************************************************************)
EXTENDS Integers, Sequences, FiniteSets

VARIABLES
    pc,                     \* position of the running script
    locals,                 \* names bound in the script's namespace so far
    session_state,          \* st.session_state: survives reruns
    \* sidebar
    vat, profile, default_upgrades,
    \* tab1
    price, rooms, has_ac, has_screens, has_showers,
    upgrades_breakdown, upgrades_sum, purchase_tax, tax_kind,
    \* frame of the last calc_progressive_tax call
    amount, brackets, tax,
    \* tab2
    has_broker, broker_pct, broker_fee, has_lawyer, lawyer_pct, lawyer_fee,
    contractor_lawyer_fee, has_consultant, consultant_pct,
    broker_vat, lawyer_vat, contractor_lawyer_vat, fees_so_far,
    \* tab3
    max_ltv, max_mortgage_allowed, mortgage_input, warning, desired_mortgage,
    consultant_fee, consultant_vat, total_fees, monthly_30, monthly_20,
    \* tab4
    total_cost, equity_required, export

sidebarVars == <<vat, profile, default_upgrades>>
tab1Vars == <<price, rooms, has_ac, has_screens, has_showers,
              upgrades_breakdown, upgrades_sum, purchase_tax, tax_kind>>
frameVars == <<amount, brackets, tax>>
tab2Vars == <<has_broker, broker_pct, broker_fee, has_lawyer, lawyer_pct, lawyer_fee,
              contractor_lawyer_fee, has_consultant, consultant_pct,
              broker_vat, lawyer_vat, contractor_lawyer_vat, fees_so_far>>
tab3Vars == <<max_ltv, max_mortgage_allowed, mortgage_input, warning, desired_mortgage,
              consultant_fee, consultant_vat, total_fees, monthly_30, monthly_20>>
tab4Vars == <<total_cost, equity_required, export>>
vars == <<pc, locals, session_state, sidebarVars, tab1Vars, frameVars,
          tab2Vars, tab3Vars, tab4Vars>>

----------------------------------------------------------------------------
(* Number representation *)

SCALE == 40
RATE == 10000
INF == 2147483647

Shekel(n) == n * SCALE

Min(a, b) == IF a <= b THEN a ELSE b
Max(a, b) == IF a >= b THEN a ELSE b

RECURSIVE GCD(_, _)
GCD(a, b) == IF b = 0 THEN a ELSE GCD(b, a % b)

\* x * n / d for x >= 0, n >= 0, d > 0, formed without leaving 32 bits.
MulDiv(x, n, d) ==
    LET g == GCD(n, d)
        nn == n \div g
        dd == d \div g
    IN  (x \div dd) * nn + ((x % dd) * nn) \div dd

\* amount * rate, the rate in 1/RATE
MulRate(x, r) == MulDiv(x, r, RATE)

----------------------------------------------------------------------------
(* Constants & helpers *)

VAT_DEFAULT == 1800
CONSULTANT_MIN == Shekel(7500)
CONTRACTOR_LAWYER_FLAT == Shekel(5500)

SINGLE_HOME_BRACKETS ==
    << <<0, Shekel(1978745), 0>>,
       <<Shekel(1978745), Shekel(2347040), 350>>,
       <<Shekel(2347040), Shekel(6055070), 500>>,
       <<Shekel(6055070), Shekel(20183565), 800>>,
       <<Shekel(20183565), INF, 1000>> >>

INVESTOR_BRACKETS ==
    << <<0, Shekel(6055070), 800>>,
       <<Shekel(6055070), INF, 1000>> >>

\* Variant: the 0.5% bracket starts 5 shekels late, leaving a gap.
OLIM_BRACKETS_Gap ==
    << <<0, Shekel(1978745), 0>>,
       <<Shekel(1978750), Shekel(6055070), 50>>,
       <<Shekel(6055070), Shekel(20183565), 800>>,
       <<Shekel(20183565), INF, 1000>> >>

OLIM_BRACKETS ==
    << <<0, Shekel(1978745), 0>>,
       <<Shekel(1978745), Shekel(6055070), 50>>,
       <<Shekel(6055070), Shekel(20183565), 800>>,
       <<Shekel(20183565), INF, 1000>> >>

BuyerProfile == [is_israeli : BOOLEAN, is_single_home : BOOLEAN, is_oleh : BOOLEAN]

\* The for loop of calc_progressive_tax from bracket i on, with the running tax.
RECURSIVE TaxLoop(_, _, _, _)
TaxLoop(amt, brs, i, acc) ==
    IF i > Len(brs) THEN acc
    ELSE LET lower == brs[i][1]
             upper == brs[i][2]
             rate == brs[i][3]
         IN  IF amt <= lower THEN acc
             ELSE LET taxable == Min(amt, upper) - lower
                  IN  TaxLoop(amt, brs, i + 1,
                              IF taxable > 0 THEN acc + MulRate(taxable, rate) ELSE acc)

\* Variant: the taxable part of a bracket is not capped at the bracket's upper bound.
RECURSIVE TaxLoop_NoCap(_, _, _, _)
TaxLoop_NoCap(amt, brs, i, acc) ==
    IF i > Len(brs) THEN acc
    ELSE LET lower == brs[i][1]
             rate == brs[i][3]
         IN  IF amt <= lower THEN acc
             ELSE LET taxable == amt - lower
                  IN  TaxLoop_NoCap(amt, brs, i + 1,
                                    IF taxable > 0 THEN acc + MulRate(taxable, rate) ELSE acc)

calc_progressive_tax_NoCap(amt, brs) == Max(0, TaxLoop_NoCap(amt, brs, 1, 0))

\* Variant: the whole amount is taxed at the rate of the bracket it falls in.
RECURSIVE TaxLoop_Slab(_, _, _, _)
TaxLoop_Slab(amt, brs, i, acc) ==
    IF i > Len(brs) THEN acc
    ELSE IF amt <= brs[i][1] THEN acc
         ELSE TaxLoop_Slab(amt, brs, i + 1, MulRate(amt, brs[i][3]))

calc_progressive_tax_Slab(amt, brs) == Max(0, TaxLoop_Slab(amt, brs, 1, 0))

calc_progressive_tax(amt, brs) == Max(0, TaxLoop(amt, brs, 1, 0))

\* Variant: the resident test comes before the new-immigrant test.
SelectBrackets_ResidentFirst(p) ==
    IF p.is_israeli /\ p.is_single_home
    THEN [brackets |-> SINGLE_HOME_BRACKETS, kind |-> "israeli_single_home"]
    ELSE IF p.is_oleh /\ p.is_single_home
         THEN [brackets |-> OLIM_BRACKETS, kind |-> "olim_single_home"]
         ELSE [brackets |-> INVESTOR_BRACKETS, kind |-> "additional_or_non_resident"]

SelectBrackets(p) ==
    IF p.is_oleh /\ p.is_single_home
    THEN [brackets |-> OLIM_BRACKETS, kind |-> "olim_single_home"]
    ELSE IF p.is_israeli /\ p.is_single_home
         THEN [brackets |-> SINGLE_HOME_BRACKETS, kind |-> "israeli_single_home"]
         ELSE [brackets |-> INVESTOR_BRACKETS, kind |-> "additional_or_non_resident"]

calc_purchase_tax(pr, p) ==
    LET sel == SelectBrackets(p)
    IN  [tax |-> calc_progressive_tax(pr, sel.brackets), kind |-> sel.kind]

rule_of_thumb_monthly(mortgage_amount, years) ==
    LET per_million == IF years = 30 THEN 5550 ELSE 6700
    IN  MulDiv(mortgage_amount, per_million, 1000000)

----------------------------------------------------------------------------
(* Sidebar: the upgrade basket *)

UpgradeNames ==
    {"ac", "screens", "showers", "kitchen", "lighting", "sockets", "flooring", "walls"}

InferredNames == {"ac", "screens", "showers"}

DEFAULT_UPGRADES ==
    [k \in UpgradeNames |->
        CASE k = "ac"       -> [qty |-> 0, unit_cost |-> Shekel(6000)]
          [] k = "screens"  -> [qty |-> 0, unit_cost |-> Shekel(300)]
          [] k = "showers"  -> [qty |-> 0, unit_cost |-> Shekel(1800)]
          [] k = "kitchen"  -> [qty |-> 1, unit_cost |-> Shekel(50000)]
          [] k = "lighting" -> [qty |-> 1, unit_cost |-> Shekel(5000)]
          [] k = "sockets"  -> [qty |-> 0, unit_cost |-> Shekel(500)]
          [] k = "flooring" -> [qty |-> 1, unit_cost |-> Shekel(12000)]
          [] k = "walls"    -> [qty |-> 1, unit_cost |-> Shekel(8000)]]

----------------------------------------------------------------------------
(* tab1: upgrade estimate *)

\* Variant: the three inferred lines use the user's quantity like the others.
UpgradesBreakdown_UserQty(rm, ac, screens, showers, upg) ==
    LET names == (IF ac THEN {} ELSE {"ac"})
                 \cup (IF screens THEN {} ELSE {"screens"})
                 \cup (IF showers THEN {} ELSE {"showers"})
                 \cup (UpgradeNames \ InferredNames)
    IN  [k \in names |-> upg[k].qty * upg[k].unit_cost]

\* upgrades_breakdown as the script fills it: a mapping from the names that
\* got a line to the line's amount.
UpgradesBreakdown(rm, ac, screens, showers, upg) ==
    LET names == (IF ac THEN {} ELSE {"ac"})
                 \cup (IF screens THEN {} ELSE {"screens"})
                 \cup (IF showers THEN {} ELSE {"showers"})
                 \cup (UpgradeNames \ InferredNames)
    IN  [k \in names |->
            CASE k = "ac"      -> rm * upg[k].unit_cost
              [] k = "screens" -> (rm + 1) * upg[k].unit_cost
              [] k = "showers" -> 2 * upg[k].unit_cost
              [] OTHER         -> upg[k].qty * upg[k].unit_cost]

RECURSIVE SumValues(_, _)
SumValues(f, S) ==
    IF S = {} THEN 0
    ELSE LET k == CHOOSE x \in S : TRUE IN f[k] + SumValues(f, S \ {k})

UpgradesSum(breakdown) == SumValues(breakdown, DOMAIN breakdown)

----------------------------------------------------------------------------
(* tab2: fees *)

\* Variant: the fee is charged whether or not the checkbox is ticked.
BrokerFee_IgnoresFlag(pr, has, pct) == MulRate(pr, pct)

BrokerFee(pr, has, pct) == IF has THEN MulRate(pr, pct) ELSE 0

LawyerFee(pr, has, pct) == IF has THEN MulRate(pr, pct) ELSE 0

FeesSoFar(bf, bv, lf, lv, cf, cv) == bf + bv + lf + lv + cf + cv

----------------------------------------------------------------------------
(* tab3: mortgage *)

MaxLtv(p) == IF p.is_israeli /\ p.is_single_home THEN 7500 ELSE 5000

MaxMortgageAllowed(pr, ltv) == MulRate(pr, ltv)

ExceedsCeiling(requested, ceiling) == requested > ceiling

\* Variant: the warning is shown but the amount is left as requested.
ClampMortgage_NoClamp(requested, ceiling) == requested

ClampMortgage(requested, ceiling) ==
    IF ExceedsCeiling(requested, ceiling) THEN ceiling ELSE requested

\* Variant: the percentage alone, without the minimum fee.
ConsultantFee_NoFloor(names, has, pct, mortgage) ==
    IF "has_consultant" \in names
    THEN IF has THEN MulRate(mortgage, pct) ELSE 0
    ELSE MulRate(mortgage, 50)

ConsultantFee(names, has, pct, mortgage) ==
    IF "has_consultant" \in names
    THEN IF has THEN Max(MulRate(mortgage, pct), CONSULTANT_MIN) ELSE 0
    ELSE Max(MulRate(mortgage, 50), CONSULTANT_MIN)

\* Variant: the consultant's VAT is left out of the total.
TotalFees_NoConsultantVat(fees, cf, cv) == fees + cf

TotalFees(fees, cf, cv) == fees + cf + cv

----------------------------------------------------------------------------
(* tab4: summary *)

TotalCost(pr, ptax, upg, fees) == pr + ptax + upg + fees

\* Variant: the operands of the subtraction are exchanged.
EquityRequired_Swapped(cost, mortgage) == Max(0, mortgage - cost)

EquityRequired(cost, mortgage) == Max(0, cost - mortgage)

\* int(x) of a non-negative amount: whole shekels, the fraction dropped
ToInt(x) == x \div SCALE

ExportRows(pr, ptax, upg, fees, mortgage, equity) ==
    [price |-> ToInt(pr), purchase_tax |-> ToInt(ptax), upgrades |-> ToInt(upg),
     total_fees |-> ToInt(fees), mortgage |-> ToInt(mortgage), equity |-> ToInt(equity)]

----------------------------------------------------------------------------
(* Inputs the widgets deliver *)

MaxQty == 1
MaxRooms == 4
MaxDelta == 2

Vats == {0, VAT_DEFAULT}

\* The basket after the sidebar's loop: the defaults with one line edited.
EditedNames == {"ac", "sockets"}
\* A quantity of q comes with the unit cost raised by q widget steps of 500.
UpgradeInputs ==
    {[DEFAULT_UPGRADES EXCEPT ![k] =
            [qty |-> q, unit_cost |-> DEFAULT_UPGRADES[k].unit_cost + q * Shekel(500)]] :
        k \in EditedNames, q \in 0..MaxQty}

Prices == {0, Shekel(2000000), Shekel(2400000)}
Rooms == {1, MaxRooms}
BrokerPcts == {200, 300}
LawyerPcts == {125}
ConsultantPcts == {50, 200}

\* number_input(min_value=0, max_value=price, value=ceiling)
MortgageInputs(pr, ceiling) ==
    {m \in {0, Shekel(1800000), ceiling, pr} : 0 <= m /\ m <= pr}

\* Amounts around every bracket bound, in steps of 5 shekels.
BracketBounds == {0, Shekel(1978745), Shekel(2347040), Shekel(6055070), Shekel(20183565)}
TaxAmounts ==
    {a \in {b + d * Shekel(5) : b \in BracketBounds, d \in (-MaxDelta)..MaxDelta} : a >= 0}
    \cup {Shekel(1000000), Shekel(2400000), Shekel(4000000), Shekel(25000000)}
BracketTables == {SINGLE_HOME_BRACKETS, INVESTOR_BRACKETS, OLIM_BRACKETS}

----------------------------------------------------------------------------
(* The script *)

NoProfile == [is_israeli |-> FALSE, is_single_home |-> FALSE, is_oleh |-> FALSE]
NoExport == ExportRows(0, 0, 0, 0, 0, 0)
NoBreakdown == [k \in {} |-> 0]

\* A fresh namespace: nothing bound yet.
Fresh ==
    /\ locals = {}
    /\ vat = 0 /\ profile = NoProfile /\ default_upgrades = DEFAULT_UPGRADES
    /\ price = 0 /\ rooms = 0
    /\ has_ac = FALSE /\ has_screens = FALSE /\ has_showers = FALSE
    /\ upgrades_breakdown = NoBreakdown /\ upgrades_sum = 0
    /\ purchase_tax = 0 /\ tax_kind = ""
    /\ amount = 0 /\ brackets = <<>> /\ tax = 0
    /\ has_broker = FALSE /\ broker_pct = 0 /\ broker_fee = 0
    /\ has_lawyer = FALSE /\ lawyer_pct = 0 /\ lawyer_fee = 0
    /\ contractor_lawyer_fee = 0 /\ has_consultant = FALSE /\ consultant_pct = 0
    /\ broker_vat = 0 /\ lawyer_vat = 0 /\ contractor_lawyer_vat = 0 /\ fees_so_far = 0
    /\ max_ltv = 0 /\ max_mortgage_allowed = 0 /\ mortgage_input = 0
    /\ warning = FALSE /\ desired_mortgage = 0
    /\ consultant_fee = 0 /\ consultant_vat = 0 /\ total_fees = 0
    /\ monthly_30 = 0 /\ monthly_20 = 0
    /\ total_cost = 0 /\ equity_required = 0 /\ export = NoExport

Init ==
    /\ pc = "sidebar"
    /\ session_state = {}
    /\ Fresh

Sidebar ==
    /\ pc = "sidebar"
    /\ \E v \in Vats, p \in BuyerProfile, u \in UpgradeInputs :
            /\ vat' = v
            /\ profile' = p
            /\ default_upgrades' = u
    /\ locals' = locals \cup {"vat", "is_israeli", "is_single_home", "is_oleh",
                              "profile", "default_upgrades"}
    /\ pc' = "tab1"
    /\ UNCHANGED <<session_state, tab1Vars, frameVars, tab2Vars, tab3Vars, tab4Vars>>

Tab1 ==
    /\ pc = "tab1"
    /\ \E pr \in Prices, rm \in Rooms, ac \in BOOLEAN, sc \in BOOLEAN, sh \in BOOLEAN :
            LET bd == UpgradesBreakdown(rm, ac, sc, sh, default_upgrades)
                res == calc_purchase_tax(pr, profile)
            IN  /\ price' = pr
                /\ rooms' = rm
                /\ has_ac' = ac /\ has_screens' = sc /\ has_showers' = sh
                /\ upgrades_breakdown' = bd
                /\ upgrades_sum' = UpgradesSum(bd)
                /\ amount' = pr
                /\ brackets' = SelectBrackets(profile).brackets
                /\ tax' = res.tax
                /\ purchase_tax' = res.tax
                /\ tax_kind' = res.kind
    /\ locals' = locals \cup {"price", "rooms", "has_ac", "has_screens", "has_showers",
                              "upgrades_breakdown", "upgrades_sum",
                              "purchase_tax", "tax_kind"}
    /\ pc' = "tab2"
    /\ UNCHANGED <<session_state, sidebarVars, tab2Vars, tab3Vars, tab4Vars>>

Tab2 ==
    /\ pc = "tab2"
    /\ \E hb \in BOOLEAN, bp \in BrokerPcts, hl \in BOOLEAN, lp \in LawyerPcts,
          hc \in BOOLEAN, cp \in ConsultantPcts :
            LET bf == BrokerFee(price, hb, bp)
                lf == LawyerFee(price, hl, lp)
                cf == CONTRACTOR_LAWYER_FLAT
                bv == MulRate(bf, vat)
                lv == MulRate(lf, vat)
                cv == MulRate(cf, vat)
            IN  /\ has_broker' = hb /\ broker_pct' = bp /\ broker_fee' = bf
                /\ has_lawyer' = hl /\ lawyer_pct' = lp /\ lawyer_fee' = lf
                /\ contractor_lawyer_fee' = cf
                /\ has_consultant' = hc /\ consultant_pct' = cp
                /\ broker_vat' = bv /\ lawyer_vat' = lv /\ contractor_lawyer_vat' = cv
                /\ fees_so_far' = FeesSoFar(bf, bv, lf, lv, cf, cv)
    /\ locals' = locals \cup {"has_broker", "broker_pct", "broker_fee",
                              "has_lawyer", "lawyer_pct", "lawyer_fee",
                              "contractor_lawyer_fee", "has_consultant", "consultant_pct",
                              "broker_vat", "lawyer_vat", "contractor_lawyer_vat",
                              "fees_so_far"}
    /\ pc' = "tab3"
    /\ UNCHANGED <<session_state, sidebarVars, tab1Vars, frameVars, tab3Vars, tab4Vars>>

Tab3 ==
    /\ pc = "tab3"
    /\ LET ltv == MaxLtv(profile)
           ceiling == MaxMortgageAllowed(price, ltv)
       IN  /\ max_ltv' = ltv
           /\ max_mortgage_allowed' = ceiling
           /\ \E m \in MortgageInputs(price, ceiling) :
                  LET dm == ClampMortgage(m, ceiling)
                      cf == ConsultantFee(locals, has_consultant, consultant_pct, dm)
                      cv == MulRate(cf, vat)
                  IN  /\ mortgage_input' = m
                      /\ warning' = ExceedsCeiling(m, ceiling)
                      /\ desired_mortgage' = dm
                      /\ consultant_fee' = cf
                      /\ consultant_vat' = cv
                      /\ total_fees' = TotalFees(fees_so_far, cf, cv)
                      /\ monthly_30' = rule_of_thumb_monthly(dm, 30)
                      /\ monthly_20' = rule_of_thumb_monthly(dm, 20)
    /\ session_state' = session_state \cup {"consultant_pct"}
    /\ locals' = locals \cup {"max_ltv", "max_mortgage_allowed", "desired_mortgage",
                              "consultant_fee", "consultant_vat", "total_fees",
                              "monthly_30", "monthly_20"}
    /\ pc' = "tab4"
    /\ UNCHANGED <<sidebarVars, tab1Vars, frameVars, tab2Vars, tab4Vars>>

Tab4 ==
    /\ pc = "tab4"
    /\ LET cost == TotalCost(price, purchase_tax, upgrades_sum, total_fees)
           equity == EquityRequired(cost, desired_mortgage)
       IN  /\ total_cost' = cost
           /\ equity_required' = equity
           /\ export' = ExportRows(price, purchase_tax, upgrades_sum, total_fees,
                                    desired_mortgage, equity)
    /\ locals' = locals \cup {"total_cost", "equity_required"}
    /\ pc' = "done"
    /\ UNCHANGED <<session_state, sidebarVars, tab1Vars, frameVars, tab2Vars, tab3Vars>>

\* A widget changed: the script runs again from the top in a fresh namespace.
Rerun ==
    /\ pc = "done"
    /\ pc' = "sidebar"
    /\ locals' = {}
    /\ vat' = 0 /\ profile' = NoProfile /\ default_upgrades' = DEFAULT_UPGRADES
    /\ price' = 0 /\ rooms' = 0
    /\ has_ac' = FALSE /\ has_screens' = FALSE /\ has_showers' = FALSE
    /\ upgrades_breakdown' = NoBreakdown /\ upgrades_sum' = 0
    /\ purchase_tax' = 0 /\ tax_kind' = ""
    /\ amount' = 0 /\ brackets' = <<>> /\ tax' = 0
    /\ has_broker' = FALSE /\ broker_pct' = 0 /\ broker_fee' = 0
    /\ has_lawyer' = FALSE /\ lawyer_pct' = 0 /\ lawyer_fee' = 0
    /\ contractor_lawyer_fee' = 0 /\ has_consultant' = FALSE /\ consultant_pct' = 0
    /\ broker_vat' = 0 /\ lawyer_vat' = 0 /\ contractor_lawyer_vat' = 0 /\ fees_so_far' = 0
    /\ max_ltv' = 0 /\ max_mortgage_allowed' = 0 /\ mortgage_input' = 0
    /\ warning' = FALSE /\ desired_mortgage' = 0
    /\ consultant_fee' = 0 /\ consultant_vat' = 0 /\ total_fees' = 0
    /\ monthly_30' = 0 /\ monthly_20' = 0
    /\ total_cost' = 0 /\ equity_required' = 0 /\ export' = NoExport
    /\ UNCHANGED session_state

Next == Sidebar \/ Tab1 \/ Tab2 \/ Tab3 \/ Tab4 \/ Rerun

Spec == Init /\ [][Next]_vars

----------------------------------------------------------------------------
(* calc_progressive_tax on its own: every table, amounts around every bound *)

InitTax ==
    /\ pc = "call"
    /\ session_state = {}
    /\ Fresh

CallTax ==
    /\ pc = "call"
    /\ \E a \in TaxAmounts, t \in BracketTables :
            /\ amount' = a
            /\ brackets' = t
            /\ tax' = calc_progressive_tax(a, t)
    /\ pc' = "return"
    /\ UNCHANGED <<locals, session_state, sidebarVars, tab1Vars, tab2Vars, tab3Vars, tab4Vars>>

ReturnTax ==
    /\ pc = "return"
    /\ pc' = "call"
    /\ UNCHANGED <<locals, session_state, sidebarVars, tab1Vars, frameVars,
                   tab2Vars, tab3Vars, tab4Vars>>

NextTax == CallTax \/ ReturnTax

SpecTax == InitTax /\ [][NextTax]_vars

----------------------------------------------------------------------------
(* Properties of the tax calculator *)

KindOlim == "olim_single_home"
KindSingleHome == "israeli_single_home"
KindInvestor == "additional_or_non_resident"

TableNamed(kind) ==
    CASE kind = KindOlim       -> OLIM_BRACKETS
      [] kind = KindSingleHome -> SINGLE_HOME_BRACKETS
      [] kind = KindInvestor   -> INVESTOR_BRACKETS

\* C1: for every buyer profile the bracket table is chosen by the ordered
\* priority (new immigrant and only home -> OLIM; else resident and only home
\* -> SINGLE_HOME; else INVESTOR), and the label returned names the table the
\* tax was computed with.
C1_TableSelection ==
    "tax_kind" \in locals =>
        /\ (profile.is_oleh /\ profile.is_single_home) => tax_kind = KindOlim
        /\ (~profile.is_oleh /\ profile.is_israeli /\ profile.is_single_home)
               => tax_kind = KindSingleHome
        /\ (~profile.is_single_home \/ (~profile.is_oleh /\ ~profile.is_israeli))
               => tax_kind = KindInvestor
        /\ brackets = TableNamed(tax_kind)
        /\ amount = price
        /\ purchase_tax = calc_progressive_tax(price, TableNamed(tax_kind))

\* A resident new immigrant buying an only home at 2,400,000 is taxed on the
\* new-immigrant table: (2,400,000 - 1,978,745) * 0.005 = 2,106.275.
C1_Witness ==
    /\ "tax_kind" \in locals
    /\ profile.is_oleh /\ profile.is_israeli /\ profile.is_single_home
    /\ price = Shekel(2400000)
    /\ tax_kind = KindOlim
    /\ purchase_tax = 84251

\* The marginal-rate reference: every bracket contributes
\* rate * max(0, min(amount, upper) - lower), with no early exit.
RECURSIVE MarginalSum(_, _, _)
MarginalSum(a, t, i) ==
    IF i > Len(t) THEN 0
    ELSE MulRate(Max(0, Min(a, t[i][2]) - t[i][1]), t[i][3]) + MarginalSum(a, t, i + 1)

\* The full widths of the brackets below bracket i, each times its rate.
RECURSIVE FullWidthsBelow(_, _)
FullWidthsBelow(t, i) ==
    IF i <= 1 THEN 0
    ELSE MulRate(t[i - 1][2] - t[i - 1][1], t[i - 1][3]) + FullWidthsBelow(t, i - 1)

\* C2: calc_progressive_tax equals the marginal-rate reference sum over all
\* brackets; it is 0 at amount 0; at a bracket's lower bound it is the sum of
\* the full widths of the lower brackets times their rates; and 2,400,000 on
\* the standard-resident table gives 368,295 * 0.035 + 52,960 * 0.05.
C2_MarginalRateSum ==
    pc = "return" =>
        /\ tax = MarginalSum(amount, brackets, 1)
        /\ amount = 0 => tax = 0
        /\ \A i \in 1..Len(brackets) :
               amount = brackets[i][1] => tax = FullWidthsBelow(brackets, i)
        /\ (amount = Shekel(2400000) /\ brackets = SINGLE_HOME_BRACKETS)
               => tax = MulRate(Shekel(2347040 - 1978745), 350)
                        + MulRate(Shekel(2400000 - 2347040), 500)

\* The standard-resident table at the bound 2,347,040: 368,295 * 0.035 = 12,890.325.
C2_Witness ==
    /\ pc = "return"
    /\ brackets = SINGLE_HOME_BRACKETS
    /\ amount = Shekel(2347040)
    /\ tax = 515613

BracketTableInvariant(t) ==
    /\ Len(t) >= 1
    /\ t[1][1] = 0
    /\ \A i \in 1..(Len(t) - 1) : t[i][2] = t[i + 1][1]
    /\ \A i \in 1..Len(t) : t[i][1] < t[i][2]
    /\ t[Len(t)][2] = INF
    /\ \A i \in 1..Len(t) : 0 <= t[i][3] /\ t[i][3] < RATE

\* C9: each of the three static tables starts at 0, is contiguous and strictly
\* ascending, ends at +infinity and has every rate in [0, 1); so does the
\* table every call of calc_progressive_tax is given.
C9_BracketTablesWellFormed ==
    /\ BracketTableInvariant(SINGLE_HOME_BRACKETS)
    /\ BracketTableInvariant(INVESTOR_BRACKETS)
    /\ BracketTableInvariant(OLIM_BRACKETS)
    /\ pc = "return" => BracketTableInvariant(brackets)

C9_Witness ==
    /\ pc = "return"
    /\ brackets = INVESTOR_BRACKETS
    /\ amount = Shekel(6055070)
    /\ tax = MulRate(Shekel(6055070), 800)

----------------------------------------------------------------------------
(* Properties of a run of the script *)

Resident75 == profile.is_israeli /\ profile.is_single_home

\* C4: the ceiling is 75% of the price for a resident buying an only home and
\* 50% for every other profile; the mortgage every later figure uses (monthly
\* payments, equity, export) is min(requested, ceiling), never above the
\* ceiling; the warning is raised exactly when the request exceeded it.
C4_MortgageClamp ==
    /\ "desired_mortgage" \in locals =>
        /\ Resident75 => (max_ltv = 7500 /\ 4 * max_mortgage_allowed = 3 * price)
        /\ ~Resident75 => (max_ltv = 5000 /\ 2 * max_mortgage_allowed = price)
        /\ desired_mortgage = Min(mortgage_input, max_mortgage_allowed)
        /\ desired_mortgage <= max_mortgage_allowed
        /\ warning <=> (mortgage_input > max_mortgage_allowed)
        \* 5,550 and 6,700 per million are 111 per 20,000 and 67 per 10,000
        /\ monthly_30 % 111 = 0
        /\ 20000 * (monthly_30 \div 111) = Min(mortgage_input, max_mortgage_allowed)
        /\ monthly_20 % 67 = 0
        /\ 10000 * (monthly_20 \div 67) = Min(mortgage_input, max_mortgage_allowed)
        /\ (price = Shekel(2000000) /\ Resident75 /\ mortgage_input = Shekel(1800000))
               => desired_mortgage = Shekel(1500000)
    /\ pc = "done" =>
        /\ equity_required
               = Max(0, total_cost - Min(mortgage_input, max_mortgage_allowed))
        /\ export.mortgage = Min(mortgage_input, max_mortgage_allowed) \div SCALE

\* Price 2,000,000, resident, only home, 1,800,000 requested: clamped to
\* 1,500,000 with the warning, and the equity is computed with 1,500,000.
C4_Witness ==
    /\ pc = "done"
    /\ price = Shekel(2000000) /\ Resident75
    /\ mortgage_input = Shekel(1800000)
    /\ warning
    /\ desired_mortgage = Shekel(1500000)
    /\ equity_required = total_cost - Shekel(1500000)
    /\ export.mortgage = 1500000

\* C5: with the consultant enabled the fee is max(clamped mortgage * pct,
\* 7,500), so at least 7,500; disabled it is 0; its VAT is fee * vat; and tab3
\* never runs with has_consultant unbound, so the 0.5% fallback is not taken.
C5_ConsultantFee ==
    /\ pc = "tab3" => "has_consultant" \in locals
    /\ "consultant_fee" \in locals =>
        /\ "has_consultant" \in locals
        /\ has_consultant =>
               /\ consultant_fee
                      = Max(MulRate(Min(mortgage_input, max_mortgage_allowed),
                                    consultant_pct),
                            Shekel(7500))
               /\ consultant_fee >= Shekel(7500)
        /\ ~has_consultant => consultant_fee = 0
        /\ consultant_vat = MulRate(consultant_fee, vat)

\* Consultant enabled at 2%, 1,800,000 requested of a 2,000,000 home with a
\* 1,000,000 ceiling: the fee is 2% of 1,000,000, not of 1,800,000.
C5_Witness ==
    /\ "consultant_fee" \in locals
    /\ has_consultant /\ consultant_pct = 200
    /\ mortgage_input = Shekel(1800000)
    /\ desired_mortgage = Shekel(1000000)
    /\ consultant_fee = Shekel(20000)
    /\ vat = VAT_DEFAULT
    /\ consultant_vat = Shekel(3600)

\* C6: total_fees is the sum of the eight components (four fees, each with
\* its VAT = fee * vat, the contractor-lawyer fee being 5,500); total_cost is
\* price + purchase tax + upgrades + total fees; equity is max(0, total cost -
\* clamped mortgage).
C6_Aggregation ==
    pc = "done" =>
        /\ contractor_lawyer_fee = Shekel(5500)
        /\ broker_vat = MulRate(broker_fee, vat)
        /\ lawyer_vat = MulRate(lawyer_fee, vat)
        /\ contractor_lawyer_vat = MulRate(contractor_lawyer_fee, vat)
        /\ consultant_vat = MulRate(consultant_fee, vat)
        /\ total_fees = broker_fee + broker_vat + lawyer_fee + lawyer_vat
                        + contractor_lawyer_fee + contractor_lawyer_vat
                        + consultant_fee + consultant_vat
        /\ total_cost = price + purchase_tax + upgrades_sum + total_fees
        /\ equity_required = Max(0, total_cost - desired_mortgage)

\* 2,400,000 at 18% VAT with every fee enabled: broker 2% = 48,000, lawyer
\* 1.25% = 30,000, contractor lawyer 5,500, consultant 2% of 1,800,000 =
\* 36,000; 119,500 * 1.18 = 141,010.
C6_Witness ==
    /\ pc = "done"
    /\ price = Shekel(2400000) /\ vat = VAT_DEFAULT
    /\ has_broker /\ broker_pct = 200 /\ has_lawyer /\ has_consultant
    /\ desired_mortgage = Shekel(1800000) /\ consultant_pct = 200
    /\ total_fees = Shekel(141010)

FreeNames == UpgradeNames \ InferredNames

\* C7: the upgrade total is rooms * AC cost (AC absent) + (rooms + 1) *
\* screen cost (screens absent) + 2 * shower cost (showers absent) + the
\* user's quantity * unit cost over the five other lines; a line of an
\* amenity that is present is omitted; the user's quantity of the three
\* inferred lines never changes the total, their unit cost does.
C7_UpgradeTotal ==
    "upgrades_sum" \in locals =>
        LET u == default_upgrades
            others == u["kitchen"].qty * u["kitchen"].unit_cost
                      + u["lighting"].qty * u["lighting"].unit_cost
                      + u["sockets"].qty * u["sockets"].unit_cost
                      + u["flooring"].qty * u["flooring"].unit_cost
                      + u["walls"].qty * u["walls"].unit_cost
            Total(v) == UpgradesSum(UpgradesBreakdown(rooms, has_ac, has_screens,
                                                      has_showers, v))
        IN  /\ upgrades_sum
                   = (IF has_ac THEN 0 ELSE rooms * u["ac"].unit_cost)
                     + (IF has_screens THEN 0 ELSE (rooms + 1) * u["screens"].unit_cost)
                     + (IF has_showers THEN 0 ELSE 2 * u["showers"].unit_cost)
                     + others
            /\ DOMAIN upgrades_breakdown
                   = FreeNames \cup (IF has_ac THEN {} ELSE {"ac"})
                               \cup (IF has_screens THEN {} ELSE {"screens"})
                               \cup (IF has_showers THEN {} ELSE {"showers"})
            /\ \A k \in InferredNames, q \in 0..(MaxQty + 1) :
                   Total([u EXCEPT ![k].qty = q]) = upgrades_sum
            /\ \A k \in InferredNames \cap DOMAIN upgrades_breakdown :
                   Total([u EXCEPT ![k].unit_cost = @ + Shekel(500)]) > upgrades_sum

\* Four rooms, no AC, no screens, showers present, and the user asked for one
\* AC unit at 6,500: the AC line is 4 * 6,500, the screens line 5 * 300, and
\* there is no shower line.
C7_Witness ==
    /\ "upgrades_sum" \in locals
    /\ rooms = 4 /\ ~has_ac /\ ~has_screens /\ has_showers
    /\ default_upgrades["ac"].qty = 1
    /\ "ac" \in DOMAIN upgrades_breakdown
    /\ upgrades_breakdown["ac"] = Shekel(26000)
    /\ upgrades_breakdown["screens"] = Shekel(1500)
    /\ "showers" \notin DOMAIN upgrades_breakdown
    /\ upgrades_sum = Shekel(26000 + 1500 + 50000 + 5000 + 12000 + 8000)

\* The positions of the two percentage sliders of tab2.
BrokerSlider == {50 * i : i \in 0..6}
LawyerSlider == {25 * i : i \in 0..8}

\* The run's totals had the sliders stood at bp and lp, all else the same.
TotalsWith(bp, lp) ==
    LET bf == BrokerFee(price, has_broker, bp)
        lf == LawyerFee(price, has_lawyer, lp)
        fees == FeesSoFar(bf, MulRate(bf, vat), lf, MulRate(lf, vat),
                          contractor_lawyer_fee, contractor_lawyer_vat)
        tf == TotalFees(fees, consultant_fee, consultant_vat)
        cost == TotalCost(price, purchase_tax, upgrades_sum, tf)
    IN  <<tf, cost, EquityRequired(cost, desired_mortgage)>>

\* C8: with the broker fee disabled the fee and its VAT are 0 and the totals
\* are the same for every position of the broker slider; likewise for the
\* buyer-lawyer fee and its slider.
C8_DisabledFeeIndependence ==
    pc = "done" =>
        /\ ~has_broker =>
               /\ broker_fee = 0 /\ broker_vat = 0
               /\ \A bp \in BrokerSlider :
                      TotalsWith(bp, lawyer_pct)
                          = <<total_fees, total_cost, equity_required>>
        /\ ~has_lawyer =>
               /\ lawyer_fee = 0 /\ lawyer_vat = 0
               /\ \A lp \in LawyerSlider :
                      TotalsWith(broker_pct, lp)
                          = <<total_fees, total_cost, equity_required>>

C8_Witness ==
    /\ pc = "done"
    /\ ~has_broker /\ broker_pct = 300 /\ broker_fee = 0
    /\ has_lawyer /\ lawyer_fee = Shekel(30000)
    /\ price = Shekel(2400000) /\ vat = VAT_DEFAULT

\* C10: total cost - clamped mortgage >= price - ceiling + 5,500 >=
\* price / 4 + 5,500 > 0, so the max(0, ...) of equity_required never takes
\* effect: the equity is total cost - clamped mortgage and is positive.
C10_EquityPositive ==
    pc = "done" =>
        /\ total_cost - desired_mortgage
               >= price - max_mortgage_allowed + Shekel(5500)
        /\ 4 * (price - max_mortgage_allowed + Shekel(5500)) >= price + 4 * Shekel(5500)
        /\ price + 4 * Shekel(5500) > 0
        /\ equity_required = total_cost - desired_mortgage
        /\ equity_required > 0

\* A free home with nothing requested still needs the contractor lawyer's
\* 5,500 and the upgrade basket.
C10_Witness ==
    /\ pc = "done"
    /\ price = 0 /\ vat = 0 /\ desired_mortgage = 0
    /\ ~has_broker /\ ~has_lawyer /\ ~has_consultant
    /\ has_ac /\ has_screens /\ has_showers
    /\ equity_required = Shekel(5500) + upgrades_sum

====
